---- MODULE Spec2Model ----
(***************************************************************************)
(* Profile Intake API (server/app): the Profile and Submission tables, the *)
(* upload directory, the bearer-token gate, the four protected endpoints   *)
(* and the background completion task, as a state machine.                 *)
(*                                                                         *)
(* Every request handler is a synchronous function, so the framework runs  *)
(* it in a worker thread: handlers of different requests interleave at     *)
(* every database statement.  Each handler owns its own session; a commit  *)
(* writes to the shared tables only the columns the handler changed on     *)
(* the row it had loaded.  A task handed to BackgroundTasks.add_task runs  *)
(* detached from the request that scheduled it; the model lets every task  *)
(* so handed over run, whatever became of the response of that request,    *)
(* which is the scheduling routes.py is written against.                   *)
(*                                                                         *)
(* Spec is the server under concurrent authorized requests; SpecAuth and   *)
(* SpecInputs vary the Authorization header and the request inputs under   *)
(* one handler; SpecRestart adds restarts of the process; SpecRace starts  *)
(* from an uploaded submission and lets every thread of the pool submit.   *)
(***************************************************************************)
EXTENDS Integers, Sequences, FiniteSets, TLC

\* ------------------------------------------------------------------ bounds
MaxReqs == 2        \* requests in flight at once in Spec
MaxSubs == 2        \* submission ids available to uuid4
MaxProfiles == 1    \* profile ids available to uuid4

Reqs == 1..MaxReqs
Workers == 1..(MaxReqs + 1)  \* the threads of the pool: one more than Reqs
SubIds == 1..MaxSubs
ProfileIds == 1..MaxProfiles
NoSuchProfile == 0  \* a profile id that uuid4 never hands out

\* ------------------------------------------------------------- text values
\* A string is a sequence of one-character strings.
api_token == <<"t", "k">>

\* ------------------------------------------------------------------ inputs
\* The Authorization header: absent, or present with a value.
NoHeader == [present |-> FALSE, value |-> <<>>]
Hdr(v) == [present |-> TRUE, value |-> v]
GoodHeader == Hdr(<<"B", "e", "a", "r", "e", "r", " ">> \o api_token)
WrongHeader == Hdr(<<"B", "e", "a", "r", "e", "r", " ", "n", "o">>)
BasicHeader == Hdr(<<"B", "a", "s", "i", "c", " ">> \o api_token)
BareHeader == Hdr(api_token)
Headers == { NoHeader, GoodHeader, WrongHeader, BasicHeader, BareHeader }

ContentTypes == { "application/pdf", "image/png" }

\* Settings.max_file_size_mb, and the size of an uploaded file in megabytes:
\* one under the maximum, one over it.
max_file_size_mb == 10
SmallFile == 1
FileSizes == { SmallFile, max_file_size_mb + 1 }

NoName == <<"<", "n", "o", "n", "e", ">">>
ResumePdf == <<"a", ".", "p", "d", "f">>
Filenames ==
    { ResumePdf,
      <<"a", ".", "P", "D", "F">>,
      <<"a", ".", "p", "d", "f", ".", "p", "n", "g">>,
      <<".", "p", "d", "f">>,
      <<"p", "d", "f">>,
      NoName }

\* Profile payloads: the JSON body of POST /profiles.
John == [first_name |-> <<"A">>, last_name |-> <<"B">>, email |-> <<"a", "@", "b", ".", "c">>, github_url |-> <<"x">>]
Jane == [first_name |-> <<"C">>, last_name |-> <<"D">>, email |-> <<"c", "@", "d", ".", "e">>, github_url |-> <<>>]
Payloads ==
    { John,
      Jane,
      [first_name |-> <<>>, last_name |-> <<"B">>, email |-> <<"a", "@", "b", ".", "c">>, github_url |-> <<>>],
      [first_name |-> <<"A">>, last_name |-> <<"B">>, email |-> <<"a", "b", ".", "c">>, github_url |-> <<>>] }

\* --------------------------------------------------------------- responses
NoBody == [none |-> TRUE]
NoChallenge == "none"
HTTPException(code, detail) ==
    [code |-> code, detail |-> detail, challenge |-> NoChallenge, body |-> NoBody]
RequestValidationError ==
    [code |-> 422, detail |-> "Unprocessable Entity", challenge |-> NoChallenge, body |-> NoBody]
InternalServerError(what) ==
    [code |-> 500, detail |-> what, challenge |-> NoChallenge, body |-> NoBody]

\* ------------------------------------------------------------------- state
VARIABLES
    profiles,      \* table profiles: id -> row
    submissions,   \* table submissions: id -> row
    files,         \* the files in the upload directory: <<path, "whole" or "part">>
    tasks,         \* completion tasks handed to BackgroundTasks: <<id, n>> -> task
    scheduled,     \* per submission id, how many times add_task was called
    pc,            \* per request handler, where it stands
    req,           \* per request handler, the request it is serving
    loc,           \* per request handler, the row its session has loaded
    last,          \* the request that finished last: what its lookup saw, its response
    now            \* the server clock (datetime.utcnow), one tick per row created

vars == <<profiles, submissions, files, tasks, scheduled, pc, req, loc, last, now>>

NoRow == [none |-> TRUE]
NoReq == [op |-> "none"]
NoResp == [code |-> 0, detail |-> "", challenge |-> NoChallenge, body |-> NoBody]

Statuses == { "UPLOADED", "PROCESSING", "COMPLETED" }

\* ---------------------------------------------------------------- auth.py
\* Mutant: any credential after "Bearer " is accepted.
require_auth_scheme_only(h) ==
    IF ~h.present THEN RequestValidationError
    ELSE IF Len(h.value) < 7 \/ SubSeq(h.value, 1, 7) # <<"B", "e", "a", "r", "e", "r", " ">>
    THEN HTTPException(401, "Unauthorized")
    ELSE NoResp

\* require_auth: the header is a required parameter of the dependency; the
\* framework answers 422 before calling it when the header is absent.
\* Otherwise the value is compared with "Bearer " + api_token.
expected == <<"B", "e", "a", "r", "e", "r", " ">> \o api_token

require_auth(h) ==
    IF ~h.present THEN RequestValidationError
    ELSE IF h.value # expected THEN HTTPException(401, "Unauthorized")
    ELSE NoResp

Authorized(h) == require_auth(h) = NoResp

\* ------------------------------------------------------ _ensure_pdf_upload
Max(S) == CHOOSE x \in S : \A y \in S : y <= x

rfind(p, c) == Max({0} \cup { i \in 1..Len(p) : p[i] = c })

\* os.path.splitext(p)[1]: the text from the last dot on, unless only dots
\* stand between the last separator and that dot.
splitext(p) ==
    LET sepIndex == rfind(p, "/")
        dotIndex == rfind(p, ".")
    IN  IF dotIndex > sepIndex
           /\ \E i \in (sepIndex + 1)..(dotIndex - 1) : p[i] # "."
        THEN SubSeq(p, dotIndex, Len(p))
        ELSE <<>>

lowerChar(c) ==
    CASE c = "P" -> "p"
      [] c = "D" -> "d"
      [] c = "F" -> "f"
      [] c = "A" -> "a"
      [] c = "B" -> "b"
      [] OTHER -> c

lower(s) == [i \in 1..Len(s) |-> lowerChar(s[i])]

\* file.filename or ""
filenameOrEmpty(f) == IF f = NoName THEN <<>> ELSE f

\* Mutant: the extension is checked anywhere in the name, not at its end.
_ensure_pdf_upload_any_dot(ctype, fname) ==
    IF ctype # "application/pdf"
    THEN HTTPException(400, "Only PDF files are allowed")
    ELSE IF ~\E i \in 1..(Len(filenameOrEmpty(fname)) - 3) :
               lower(SubSeq(filenameOrEmpty(fname), i, i + 3)) = <<".", "p", "d", "f">>
    THEN HTTPException(400, "Only PDF files are allowed")
    ELSE NoResp

_ensure_pdf_upload(ctype, fname) ==
    IF ctype # "application/pdf"
    THEN HTTPException(400, "Only PDF files are allowed")
    ELSE IF lower(splitext(filenameOrEmpty(fname))) # <<".", "p", "d", "f">>
    THEN HTTPException(400, "Only PDF files are allowed")
    ELSE NoResp

\* -------------------------------------------------------------- schemas.py
\* ProfileCreate: non-empty names and an email address (one "@", a local
\* part, and a domain with an inner dot).
IsEmail(e) ==
    LET at == { i \in 1..Len(e) : e[i] = "@" }
    IN  /\ Cardinality(at) = 1
        /\ LET a == CHOOSE i \in at : TRUE
           IN  /\ a > 1
               /\ \E d \in (a + 2)..(Len(e) - 1) : e[d] = "."

ProfileCreateValid(p) ==
    /\ Len(p.first_name) >= 1
    /\ Len(p.last_name) >= 1
    /\ IsEmail(p.email)

\* The fields a response model requires of the object a handler returns.
ProfileOutRequired == { "first_name", "last_name", "email", "id", "created_at" }
ProfileOutFields == ProfileOutRequired \cup { "github_url" }
SubmissionOutRequired == { "profile_id", "pdf_content", "id", "status", "created_at" }
SubmissionOutFields == SubmissionOutRequired

\* response_model=...: the returned ORM object is validated against the
\* schema attribute by attribute (from_attributes); a required field the
\* object does not have is a response validation error, answered with 500.
serialize_response(obj, required, fields, code) ==
    IF required \subseteq DOMAIN obj
    THEN [code |-> code, detail |-> "", challenge |-> NoChallenge,
          body |-> [f \in fields \cap DOMAIN obj |-> obj[f]]]
    ELSE InternalServerError("ResponseValidationError")

\* --------------------------------------------------------------- models.py
\* _uuid_str: a fresh identifier (the least unused one stands for it).
_uuid_str(used, ids) == CHOOSE i \in ids \ used : \A j \in ids \ used : i <= j

Profile(id, p) ==
    [id |-> id, first_name |-> p.first_name, last_name |-> p.last_name,
     email |-> p.email, github_url |-> p.github_url, created_at |-> now]

Submission(id, profile_id, filename) ==
    [id |-> id, profile_id |-> profile_id, filename |-> filename,
     status |-> "UPLOADED", locked |-> FALSE, created_at |-> now]

\* Session.commit for a loaded row: UPDATE ... SET only the columns whose
\* value differs from the one the session loaded, WHERE id = the row's id.
flush(current, loaded, changed) ==
    [f \in DOMAIN current |-> IF changed[f] # loaded[f] THEN changed[f] ELSE current[f]]

\* ------------------------------------------------------------------- Init
Init ==
    /\ profiles = << >>
    /\ submissions = << >>
    /\ files = {}
    /\ tasks = << >>
    /\ scheduled = [s \in SubIds |-> 0]
    /\ pc = [r \in Workers |-> "idle"]
    /\ req = [r \in Workers |-> NoReq]
    /\ loc = [r \in Workers |-> NoRow]
    /\ last = [req |-> NoReq, seen |-> NoRow, resp |-> NoResp]
    /\ now = 0

Request(op, h, id, ctype, fname, size, payload) ==
    [op |-> op, hdr |-> h, id |-> id, ctype |-> ctype, fname |-> fname,
     size |-> size, payload |-> payload]

\* A handler that ends in one step: it answers and is idle again.
Answer(r, rq, seen, resp) ==
    /\ last' = [req |-> rq, seen |-> seen, resp |-> resp]
    /\ pc' = [pc EXCEPT ![r] = "idle"]
    /\ req' = [req EXCEPT ![r] = NoReq]
    /\ loc' = [loc EXCEPT ![r] = NoRow]

\* A handler that goes on: it keeps its request and the row its lookup loaded.
Continue(r, rq, at, row) ==
    /\ last' = last
    /\ pc' = [pc EXCEPT ![r] = at]
    /\ req' = [req EXCEPT ![r] = rq]
    /\ loc' = [loc EXCEPT ![r] = row]

Put(table, id, row) == [i \in DOMAIN table \cup {id} |-> IF i = id THEN row ELSE table[i]]

\* -------------------------------------------------- POST /api/v1/profiles
create_profile(r, h, p) ==
    LET rq == Request("create_profile", h, 0, "", <<>>, 0, p)
        id == _uuid_str(DOMAIN profiles, ProfileIds)
        profile == Profile(id, p)
    IN
    /\ pc[r] = "idle"
    /\ UNCHANGED <<submissions, files, tasks, scheduled>>
    /\ IF ~Authorized(h)
       THEN Answer(r, rq, NoRow, require_auth(h)) /\ UNCHANGED <<profiles, now>>
       ELSE IF ~ProfileCreateValid(p)
       THEN Answer(r, rq, NoRow, RequestValidationError) /\ UNCHANGED <<profiles, now>>
       ELSE IF \E i \in DOMAIN profiles : profiles[i].email = p.email
       THEN \* unique index on email: the INSERT fails, nothing handles it
            Answer(r, rq, NoRow, InternalServerError("IntegrityError")) /\ UNCHANGED <<profiles, now>>
       ELSE /\ DOMAIN profiles # ProfileIds
            /\ profiles' = Put(profiles, id, profile)
            /\ now' = now + 1
            /\ Answer(r, rq, NoRow, serialize_response(profile, ProfileOutRequired, ProfileOutFields, 201))

\* ----------------------------------------------- POST /api/v1/submissions
\* Mutant: the profile is not looked up.
upload_submission_no_profile_lookup(r, h, profile_id, ctype, fname, size) ==
    LET rq == Request("upload_submission", h, profile_id, ctype, fname, size, <<>>)
        id == _uuid_str(DOMAIN submissions, SubIds)
        submission == Submission(id, profile_id, fname)
    IN
    /\ pc[r] = "idle"
    /\ UNCHANGED <<profiles, files, tasks, scheduled>>
    /\ IF ~Authorized(h)
       THEN Answer(r, rq, NoRow, require_auth(h)) /\ UNCHANGED <<submissions, now>>
       ELSE IF _ensure_pdf_upload(ctype, fname) # NoResp
       THEN Answer(r, rq, NoRow, _ensure_pdf_upload(ctype, fname)) /\ UNCHANGED <<submissions, now>>
       ELSE /\ DOMAIN submissions # SubIds
            /\ submissions' = Put(submissions, id, submission)
            /\ now' = now + 1
            /\ Continue(r, rq, "upload_write", submission)

\* Up to the commit of the new row (routes.py 121-135).
upload_submission(r, h, profile_id, ctype, fname, size) ==
    LET rq == Request("upload_submission", h, profile_id, ctype, fname, size, <<>>)
        id == _uuid_str(DOMAIN submissions, SubIds)
        submission == Submission(id, profile_id, fname)
    IN
    /\ pc[r] = "idle"
    /\ UNCHANGED <<profiles, files, tasks, scheduled>>
    /\ IF ~Authorized(h)
       THEN Answer(r, rq, NoRow, require_auth(h)) /\ UNCHANGED <<submissions, now>>
       ELSE IF profile_id \notin DOMAIN profiles
       THEN Answer(r, rq, NoRow, HTTPException(404, "Profile not found")) /\ UNCHANGED <<submissions, now>>
       ELSE IF _ensure_pdf_upload(ctype, fname) # NoResp
       THEN Answer(r, rq, profiles[profile_id], _ensure_pdf_upload(ctype, fname)) /\ UNCHANGED <<submissions, now>>
       ELSE /\ DOMAIN submissions # SubIds
            /\ submissions' = Put(submissions, id, submission)
            /\ now' = now + 1
            /\ Continue(r, rq, "upload_write", submission)

upload_dir == "./uploads"

\* Mutant: the file is stored under the name the client gave it.
file_path_by_name(submission) == <<upload_dir, submission.filename>>

\* os.path.join(settings.upload_dir, f"{submission.id}.pdf")
file_path(submission) == <<upload_dir, submission.id, ".pdf">>

\* How the write of the uploaded file ends: the whole file is written; or
\* makedirs or open raises and no file is created; or open has created the
\* file and copyfileobj raises part way (the disk is full), which leaves a
\* truncated file, since nothing removes it.
WriteOutcomes == { "written", "open_failed", "copy_failed" }

\* Whether a file exists at the path.
isfile(path) == \E f \in files : f[1] = path

\* Mutant: a failed write takes the row back out of the table.
upload_write_rollback(r, outcome) ==
    /\ pc[r] = "upload_write"
    /\ UNCHANGED <<profiles, tasks, scheduled, now>>
    /\ IF outcome = "written"
       THEN /\ files' = files \cup { <<file_path(loc[r]), "whole">> }
            /\ submissions' = submissions
            /\ Answer(r, req[r], profiles[req[r].id],
                      serialize_response(loc[r], SubmissionOutRequired, SubmissionOutFields, 200))
       ELSE /\ files' = IF outcome = "copy_failed"
                        THEN files \cup { <<file_path(loc[r]), "part">> }
                        ELSE files
            /\ submissions' = [i \in DOMAIN submissions \ {loc[r].id} |-> submissions[i]]
            /\ Answer(r, req[r], profiles[req[r].id], InternalServerError("OSError"))

\* The file write and the return (routes.py 137-143).  An OSError of the
\* write is handled nowhere: the request is answered 500.
upload_write(r, outcome) ==
    /\ pc[r] = "upload_write"
    /\ UNCHANGED <<profiles, submissions, tasks, scheduled, now>>
    /\ IF outcome = "written"
       THEN /\ files' = files \cup { <<file_path(loc[r]), "whole">> }
            /\ Answer(r, req[r], profiles[req[r].id],
                      serialize_response(loc[r], SubmissionOutRequired, SubmissionOutFields, 200))
       ELSE /\ files' = IF outcome = "copy_failed"
                        THEN files \cup { <<file_path(loc[r]), "part">> }
                        ELSE files
            /\ Answer(r, req[r], profiles[req[r].id], InternalServerError("OSError"))

\* ------------------------------------ POST /api/v1/submissions/{id}/submit
\* Mutant: the lock is not checked.
submit_no_lock_check(r, h, submission_id) ==
    LET rq == Request("submit", h, submission_id, "", <<>>, 0, <<>>)
    IN
    /\ pc[r] = "idle"
    /\ UNCHANGED <<profiles, submissions, files, tasks, scheduled, now>>
    /\ IF ~Authorized(h)
       THEN Answer(r, rq, NoRow, require_auth(h))
       ELSE IF submission_id \notin DOMAIN submissions
       THEN Answer(r, rq, NoRow, HTTPException(404, "Submission not found"))
       ELSE Continue(r, rq, "submit_commit", submissions[submission_id])

\* The lookup and the lock check (routes.py 165-170).
submit(r, h, submission_id) ==
    LET rq == Request("submit", h, submission_id, "", <<>>, 0, <<>>)
    IN
    /\ pc[r] = "idle"
    /\ UNCHANGED <<profiles, submissions, files, tasks, scheduled, now>>
    /\ IF ~Authorized(h)
       THEN Answer(r, rq, NoRow, require_auth(h))
       ELSE IF submission_id \notin DOMAIN submissions
       THEN Answer(r, rq, NoRow, HTTPException(404, "Submission not found"))
       ELSE IF submissions[submission_id].locked
       THEN Answer(r, rq, submissions[submission_id], HTTPException(409, "Submission has already been submitted"))
       ELSE Continue(r, rq, "submit_commit", submissions[submission_id])

\* Mutant: the commit sets the lock and leaves the status alone.
submit_commit_lock_only(r) ==
    LET id == req[r].id
        changed == [loc[r] EXCEPT !.locked = TRUE]
    IN
    /\ pc[r] = "submit_commit"
    /\ submissions' = [submissions EXCEPT ![id] = [submissions[id] EXCEPT !.locked = TRUE]]
    /\ Continue(r, req[r], "submit_return", loc[r])
    /\ UNCHANGED <<profiles, files, tasks, scheduled, now>>

\* locked = True, status = "PROCESSING", commit (routes.py 172-175).
submit_commit(r) ==
    LET id == req[r].id
        changed == [loc[r] EXCEPT !.locked = TRUE, !.status = "PROCESSING"]
    IN
    /\ pc[r] = "submit_commit"
    /\ submissions' = [submissions EXCEPT ![id] = flush(submissions[id], loc[r], changed)]
    /\ Continue(r, req[r], "submit_return", loc[r])
    /\ UNCHANGED <<profiles, files, tasks, scheduled, now>>

\* refresh, add_task, return (routes.py 176-180).
submit_return(r) ==
    LET id == req[r].id
        submission == submissions[id]
        n == scheduled[id] + 1
    IN
    /\ pc[r] = "submit_return"
    /\ scheduled' = [scheduled EXCEPT ![id] = n]
    /\ tasks' = Put(tasks, <<id, n>>, [pc |-> "sleep", status |-> ""])
    /\ Answer(r, req[r], loc[r],
              serialize_response(submission, SubmissionOutRequired, SubmissionOutFields, 200))
    /\ UNCHANGED <<profiles, submissions, files, now>>

\* ------------------------------------------- GET /api/v1/submissions/{id}
\* Mutant: the read marks the submission it returns as locked.
get_submission_status_locking(r, h, submission_id) ==
    LET rq == Request("get_submission_status", h, submission_id, "", <<>>, 0, <<>>)
    IN
    /\ pc[r] = "idle"
    /\ UNCHANGED <<profiles, files, tasks, scheduled, now>>
    /\ IF ~Authorized(h)
       THEN Answer(r, rq, NoRow, require_auth(h)) /\ UNCHANGED submissions
       ELSE IF submission_id \notin DOMAIN submissions
       THEN Answer(r, rq, NoRow, HTTPException(404, "Submission not found")) /\ UNCHANGED submissions
       ELSE /\ submissions' = [submissions EXCEPT ![submission_id].locked = TRUE]
            /\ Answer(r, rq, submissions[submission_id],
                      serialize_response(submissions[submission_id],
                                         SubmissionOutRequired, SubmissionOutFields, 200))

get_submission_status(r, h, submission_id) ==
    LET rq == Request("get_submission_status", h, submission_id, "", <<>>, 0, <<>>)
    IN
    /\ pc[r] = "idle"
    /\ UNCHANGED <<profiles, submissions, files, tasks, scheduled, now>>
    /\ IF ~Authorized(h)
       THEN Answer(r, rq, NoRow, require_auth(h))
       ELSE IF submission_id \notin DOMAIN submissions
       THEN Answer(r, rq, NoRow, HTTPException(404, "Submission not found"))
       ELSE Answer(r, rq, submissions[submission_id],
                   serialize_response(submissions[submission_id],
                                      SubmissionOutRequired, SubmissionOutFields, 200))

\* ------------------------------------------------------ process_submission
Drop(t) == [u \in DOMAIN tasks \ {t} |-> tasks[u]]

\* After the sleep: open a session and look the row up (routes.py 214-220).
process_submission(t) ==
    /\ t \in DOMAIN tasks
    /\ tasks[t].pc = "sleep"
    /\ IF t[1] \notin DOMAIN submissions
       THEN tasks' = Drop(t)
       ELSE tasks' = [tasks EXCEPT ![t] = [pc |-> "loaded", status |-> submissions[t[1]].status]]
    /\ UNCHANGED <<profiles, submissions, files, scheduled, pc, req, loc, last, now>>

\* Mutant: the task releases the lock when it completes the submission.
process_commit_unlock(t) ==
    /\ t \in DOMAIN tasks
    /\ tasks[t].pc = "loaded"
    /\ submissions' = [submissions EXCEPT ![t[1]] =
                          [submissions[t[1]] EXCEPT !.status = "COMPLETED", !.locked = FALSE]]
    /\ tasks' = Drop(t)
    /\ UNCHANGED <<profiles, files, scheduled, pc, req, loc, last, now>>

\* status = "COMPLETED", commit (routes.py 222-225).
process_commit(t) ==
    LET id == t[1]
        loaded == [submissions[id] EXCEPT !.status = tasks[t].status]
        changed == [loaded EXCEPT !.status = "COMPLETED"]
    IN
    /\ t \in DOMAIN tasks
    /\ tasks[t].pc = "loaded"
    /\ submissions' = [submissions EXCEPT ![id] = flush(submissions[id], loaded, changed)]
    /\ tasks' = Drop(t)
    /\ UNCHANGED <<profiles, files, scheduled, pc, req, loc, last, now>>

\* ------------------------------------------------------------------- Next
TaskIds == SubIds \X (1..(MaxReqs + 1))

\* A new request is taken by the first idle handler among R.
Idle(R) == { r \in R : pc[r] = "idle" }
Free(R, r) == r \in Idle(R) /\ \A q \in Idle(R) : r <= q

\* The server under requests with headers H, profile payloads P, uploads
\* naming the profile ids I with content types C, filenames F and sizes Z,
\* served by the handlers R.
Step(R, H, P, I, C, F, Z) ==
    \/ \E r \in R, h \in H, p \in P : Free(R, r) /\ create_profile(r, h, p)
    \/ \E r \in R, h \in H, i \in I, c \in C, f \in F, z \in Z :
          Free(R, r) /\ upload_submission(r, h, i, c, f, z)
    \/ \E r \in R, o \in WriteOutcomes : upload_write(r, o)
    \/ \E r \in R, h \in H, i \in SubIds : Free(R, r) /\ submit(r, h, i)
    \/ \E r \in R : submit_commit(r)
    \/ \E r \in R : submit_return(r)
    \/ \E r \in R, h \in H, i \in SubIds : Free(R, r) /\ get_submission_status(r, h, i)
    \/ \E t \in TaskIds : process_submission(t)
    \/ \E t \in TaskIds : process_commit(t)

\* Concurrent handlers, authorized well-formed requests.
Next == Step(Reqs, {GoodHeader}, {John}, ProfileIds, {"application/pdf"}, {ResumePdf}, {SmallFile})

Spec == Init /\ [][Next]_vars

\* One handler at a time, every Authorization header.
NextAuth == Step({1}, Headers, {John}, ProfileIds, {"application/pdf"}, {ResumePdf}, {SmallFile})

SpecAuth == Init /\ [][NextAuth]_vars

\* One handler at a time, every payload, content type, filename and file
\* size, and uploads that name a profile id no profile has.
NextInputs ==
    Step({1}, {GoodHeader}, Payloads, ProfileIds \cup {NoSuchProfile}, ContentTypes, Filenames, FileSizes)

SpecInputs == Init /\ [][NextInputs]_vars

\* Every handler and every task that can take a step eventually takes it,
\* and a client keeps polling the status of every submission.
Fairness ==
    /\ \A r \in Reqs : WF_vars(upload_write(r, "written"))
    /\ \A r \in Reqs : WF_vars(submit_commit(r))
    /\ \A r \in Reqs : WF_vars(submit_return(r))
    /\ \A t \in TaskIds : WF_vars(process_submission(t))
    /\ \A t \in TaskIds : WF_vars(process_commit(t))
    /\ \A i \in SubIds : WF_vars(\E r \in Reqs : Free(Reqs, r) /\ get_submission_status(r, GoodHeader, i))

FairSpec == Init /\ [][Next]_vars /\ Fairness

\* ---------------------------------------------------------------- restart
\* Mutant: the scheduled tasks outlive the process.
Restart_tasks_survive ==
    /\ pc' = [r \in Workers |-> "idle"]
    /\ req' = [r \in Workers |-> NoReq]
    /\ loc' = [r \in Workers |-> NoRow]
    /\ UNCHANGED <<profiles, submissions, files, tasks, scheduled, last, now>>

\* The server process stops and starts again.  The tables (the SQLite file)
\* and the upload directory are on disk and stay; the handlers in flight
\* and the tasks held by BackgroundTasks live in the memory of the process
\* and are gone.
Restart ==
    /\ tasks' = << >>
    /\ pc' = [r \in Workers |-> "idle"]
    /\ req' = [r \in Workers |-> NoReq]
    /\ loc' = [r \in Workers |-> NoRow]
    /\ UNCHANGED <<profiles, submissions, files, scheduled, last, now>>

NextRestart == Next \/ Restart

SpecRestart == Init /\ [][NextRestart]_vars

\* ------------------------------------------------------- a race of submits
\* The server after a profile was created and a PDF uploaded for it.
InitRace ==
    LET profile == [id |-> 1, first_name |-> John.first_name, last_name |-> John.last_name,
                    email |-> John.email, github_url |-> John.github_url, created_at |-> 0]
        submission == [id |-> 1, profile_id |-> 1, filename |-> ResumePdf,
                       status |-> "UPLOADED", locked |-> FALSE, created_at |-> 1]
    IN
    /\ profiles = Put(<< >>, 1, profile)
    /\ submissions = Put(<< >>, 1, submission)
    /\ files = { <<file_path(submission), "whole">> }
    /\ tasks = << >>
    /\ scheduled = [s \in SubIds |-> 0]
    /\ pc = [r \in Workers |-> "idle"]
    /\ req = [r \in Workers |-> NoReq]
    /\ loc = [r \in Workers |-> NoRow]
    /\ last = [req |-> Request("upload_submission", GoodHeader, 1, "application/pdf",
                               ResumePdf, SmallFile, <<>>),
               seen |-> profile,
               resp |-> serialize_response(submission, SubmissionOutRequired,
                                           SubmissionOutFields, 200)]
    /\ now = 2

\* Submits and reads served by every thread of the pool, and the tasks.
NextRace ==
    \/ \E r \in Workers, i \in SubIds : Free(Workers, r) /\ submit(r, GoodHeader, i)
    \/ \E r \in Workers : submit_commit(r)
    \/ \E r \in Workers : submit_return(r)
    \/ \E r \in Workers, i \in SubIds :
          Free(Workers, r) /\ get_submission_status(r, GoodHeader, i)
    \/ \E t \in TaskIds : process_submission(t)
    \/ \E t \in TaskIds : process_commit(t)

SpecRace == InitRace /\ [][NextRace]_vars

\* ================================================================ claims
Row(s) == submissions[s]
Stored == DOMAIN submissions

\* C1: for every submission id at most one submit passes the lock check and
\* schedules a completion task, whatever the interleaving of submit requests.
C1_SubmitAtMostOnce == \A s \in SubIds : scheduled[s] <= 1

\* C2: in every committed state, a locked submission is not UPLOADED and a
\* COMPLETED submission is locked.
C2_LockStatusInvariant ==
    \A s \in Stored :
        /\ Row(s).locked => Row(s).status # "UPLOADED"
        /\ Row(s).status = "COMPLETED" => Row(s).locked

\* A submission was completed while another is locked and in processing.
C2_Witness ==
    \E s, u \in Stored :
        /\ Row(s).status = "COMPLETED" /\ Row(s).locked
        /\ Row(u).status = "PROCESSING" /\ Row(u).locked

\* What a client reads in the last response: a submission resource for s.
Shows(s) ==
    /\ last.req.op \in { "submit", "get_submission_status" }
    /\ last.req.id = s
    /\ last.resp.code = 200
    /\ "status" \in DOMAIN last.resp.body

Observed(s, status) == Shows(s) /\ last.resp.body.status = status

\* C3: once a submit has gone through and its task is scheduled, the status
\* of the submission becomes COMPLETED and a polling client observes it.
C3_EventuallyCompleted ==
    \A s \in SubIds :
        /\ (scheduled[s] > 0) ~> (s \in Stored /\ Row(s).status = "COMPLETED")
        /\ (scheduled[s] > 0) ~> Observed(s, "COMPLETED")

\* A step that changes the status of s moves it one arrow along
\* UPLOADED -> PROCESSING -> COMPLETED.
C4_Transition(s) ==
    (s \in Stored /\ s \in DOMAIN submissions' /\ submissions'[s].status # Row(s).status)
        => \/ Row(s).status = "UPLOADED" /\ submissions'[s].status = "PROCESSING"
           \/ Row(s).status = "PROCESSING" /\ submissions'[s].status = "COMPLETED"

Answered == last' # last

IsRow(x) == "id" \in DOMAIN x

\* The step answers a submit whose lookup saw a locked row.
C5_Step ==
    (Answered /\ last'.req.op = "submit" /\ IsRow(last'.seen) /\ last'.seen.locked)
        => /\ last'.resp.code = 409
           /\ UNCHANGED <<profiles, submissions, files, tasks, scheduled>>

\* C5: a submit that reads a locked submission is answered 409, changes no
\* row and no file, and schedules no task.
C5_ConflictOnLocked == [][C5_Step]_vars

\* The last request was a submit on a locked submission, another
\* submission is stored beside it, and the answer was 409.
C5_Witness ==
    /\ last.req.op = "submit"
    /\ IsRow(last.seen) /\ last.seen.locked
    /\ last.resp.code = 409
    /\ Cardinality(Stored) = 2

\* The name ends in ".pdf", whatever the case of its letters.
EndsInDotPdf(f) ==
    /\ f # NoName
    /\ Len(f) >= 4
    /\ \A i \in 1..4 :
          f[Len(f) - 4 + i] \in { (<<".", "p", "d", "f">>)[i], (<<".", "P", "D", "F">>)[i] }

DeclaredPdf(rq) == rq.ctype = "application/pdf" /\ EndsInDotPdf(rq.fname)

\* The step answers an upload that is not declared as a PDF.
C6_Step ==
    (Answered /\ last'.req.op = "upload_submission" /\ ~DeclaredPdf(last'.req))
        => /\ last'.resp.code \in 400..499
           /\ UNCHANGED <<submissions, files>>

\* C6: an upload that is not declared as a PDF by both its content type and
\* its filename is answered with a client error and leaves the Submission
\* rows and the stored files as they were.
C6_NonPdfRejected == [][C6_Step]_vars

\* A non-PDF upload for an existing profile was answered 400 while a
\* submission and its file were stored.
C6_Witness ==
    /\ last.req.op = "upload_submission"
    /\ ~DeclaredPdf(last.req)
    /\ last.resp.code = 400
    /\ Stored # {} /\ files # {}

\* The header is exactly "Bearer " followed by the configured secret.
BearerSecret(h) ==
    /\ h.present
    /\ Len(h.value) = 7 + Len(api_token)
    /\ SubSeq(h.value, 1, 7) = <<"B", "e", "a", "r", "e", "r", " ">>
    /\ SubSeq(h.value, 8, Len(h.value)) = api_token

\* The step answers a request that does not carry the bearer secret.
C7_Step ==
    (Answered /\ ~BearerSecret(last'.req.hdr))
        => /\ last'.resp.code \in { 401, 422 }
           /\ UNCHANGED <<profiles, submissions, files, tasks, scheduled>>

\* C7: a call to a protected endpoint without the right Authorization
\* header is rejected and changes no row, no file and schedules no task.
C7_UnauthorizedNoEffect == [][C7_Step]_vars

\* A submit with a wrong credential was rejected while an unlocked
\* submission was stored.
C7_Witness ==
    /\ last.req.op = "submit"
    /\ last.req.hdr = WrongHeader
    /\ last.resp.code = 401
    /\ last.req.id \in Stored /\ ~Row(last.req.id).locked

\* The header is missing, or is not "Bearer <credential>".
MissingOrMalformed(h) ==
    \/ ~h.present
    \/ Len(h.value) < 8
    \/ SubSeq(h.value, 1, 7) # <<"B", "e", "a", "r", "e", "r", " ">>

\* C8: a request whose Authorization header is missing or malformed is
\* answered 401 with a challenge for the bearer scheme.
C8_UnauthorizedChallenge ==
    (last.req.op # "none" /\ MissingOrMalformed(last.req.hdr))
        => last.resp.code = 401 /\ last.resp.challenge = "Bearer"

\* A step creates s unlocked, and keeps s locked if it was.
C9_Step(s) ==
    /\ (s \notin Stored /\ s \in DOMAIN submissions') => ~submissions'[s].locked
    /\ (s \in Stored /\ Row(s).locked) => (s \in DOMAIN submissions' /\ submissions'[s].locked)

\* C9: a row is created unlocked, and a locked row stays locked in every
\* later state: no endpoint and no task writes locked back to false.
C9_LockedOneWay == [][\A s \in SubIds : C9_Step(s)]_vars

\* Two racing submits both wrote the lock, and the task has completed.
C9_Witness ==
    \E s \in Stored : Row(s).locked /\ scheduled[s] = 2 /\ Row(s).status = "COMPLETED"

\* C10: a submit that passes the lock check is answered 200 with the
\* submission resource showing status PROCESSING and locked true.
C10_SubmitResponse ==
    (last.req.op = "submit" /\ IsRow(last.seen) /\ ~last.seen.locked)
        => /\ Observed(last.req.id, "PROCESSING")
           /\ "locked" \in DOMAIN last.resp.body
           /\ last.resp.body.locked

\* C11: an authorized upload that names an existing profile and is declared
\* a PDF by its content type and its filename is answered 200 or 201 with
\* the resource of the row it created: the id of a stored row that carries
\* the uploaded filename, and status UPLOADED.  (An upload whose file write
\* failed is left aside.)
C11_UploadSucceeds ==
    (/\ last.req.op = "upload_submission"
     /\ BearerSecret(last.req.hdr)
     /\ last.req.id \in DOMAIN profiles
     /\ DeclaredPdf(last.req)
     /\ last.resp.detail # "OSError")
        => /\ last.resp.code \in { 200, 201 }
           /\ { "id", "status" } \subseteq DOMAIN last.resp.body
           /\ last.resp.body.status = "UPLOADED"
           /\ last.resp.body.id \in Stored
           /\ Row(last.resp.body.id).filename = last.req.fname

\* The step answers an authorized create-profile request with a valid
\* payload.
C12_Step ==
    (/\ Answered
     /\ last'.req.op = "create_profile"
     /\ BearerSecret(last'.req.hdr)
     /\ ProfileCreateValid(last'.req.payload))
        => /\ last'.resp.code \in { 200, 201 }
           /\ { "id", "created_at" } \subseteq DOMAIN last'.resp.body
           /\ last'.resp.body.id \in ProfileIds
           /\ last'.resp.body.id \notin DOMAIN profiles
           /\ last'.resp.body.id \in DOMAIN profiles'
           /\ last'.resp.body.created_at >= now

\* C12: an authorized create-profile request with a valid payload succeeds
\* in every state of the database, one that holds a profile with the same
\* email included, and returns a resource whose id is assigned by the
\* server and differs from every id that existed, with a created_at that is
\* not earlier than the start of the request.
C12_CreateProfileSucceeds == [][C12_Step]_vars

\* What a lookup of submission id s returns in this state.
Lookup(s) == IF s \in Stored THEN Row(s) ELSE NoRow

\* The step answers a read of a submission: it writes nothing; and when the
\* request answered before it was a read of the same id and the row is as
\* that read saw it, the two reads saw and answered the same.
C13_Step ==
    (Answered /\ last'.req.op = "get_submission_status")
        => /\ UNCHANGED <<profiles, submissions, files, tasks, scheduled, now>>
           /\ (/\ last.req.op = "get_submission_status"
               /\ last.req.id = last'.req.id
               /\ BearerSecret(last.req.hdr) /\ BearerSecret(last'.req.hdr)
               /\ last.seen = Lookup(last.req.id))
                  => (last'.seen = last.seen /\ last'.resp = last.resp)

C14_ForeignKey == \A s \in Stored : Row(s).profile_id \in DOMAIN profiles

\* The step answers an authorized upload that names no stored profile.
C14_Step ==
    (/\ Answered
     /\ last'.req.op = "upload_submission"
     /\ BearerSecret(last'.req.hdr)
     /\ last'.req.id \notin DOMAIN profiles)
        => /\ last'.resp.code = 404
           /\ UNCHANGED <<submissions, files>>

\* C14: in every state the profile_id of every Submission row is the id of
\* a stored Profile, and an upload whose profile_id names no stored Profile
\* is answered 404 and creates no Submission row and no file.
C14_ProfileExists == []C14_ForeignKey /\ [][C14_Step]_vars

\* An upload naming an unknown profile was answered 404 while a profile,
\* a submission of that profile and its file were stored.
C14_Witness ==
    /\ last.req.op = "upload_submission"
    /\ last.req.id = NoSuchProfile
    /\ DeclaredPdf(last.req)
    /\ last.resp.code = 404
    /\ Stored # {} /\ files # {}

\* C15: an upload whose file is larger than max_file_size_mb never gets as
\* far as the row or the file (no handler is past the checks with such a
\* request), and it is answered with a client error.
C15_OversizedRejected ==
    /\ \A r \in Reqs :
          (req[r].op = "upload_submission" /\ pc[r] = "upload_write")
              => req[r].size <= max_file_size_mb
    /\ (last.req.op = "upload_submission" /\ last.req.size > max_file_size_mb)
          => last.resp.code \in 400..499

\* Handler r does the file write of its upload in this step.
Writes(r) == pc[r] = "upload_write" /\ pc'[r] = "idle"

\* The write of handler r has failed: the request is answered with the
\* unhandled OSError.
WriteFails(r) == Writes(r) /\ last'.resp.detail = "OSError"

\* When the write for submission X begins, row X is committed and no file
\* of X exists; when the write fails, row X stays as it is stored, which is
\* as the upload committed it (UPLOADED, unlocked) unless a submit has
\* locked it meanwhile.
RowBeforeFile(r) ==
    /\ Writes(r) => (loc[r].id \in Stored /\ ~isfile(file_path(loc[r])))
    /\ WriteFails(r)
          => /\ loc[r].id \in DOMAIN submissions'
             /\ submissions'[loc[r].id] = Row(loc[r].id)
             /\ Row(loc[r].id).locked \/ Row(loc[r].id).status = "UPLOADED"

\* C16: in upload the row is committed before the file write begins, and a
\* file write that fails leaves the row in the table with no file
\* <upload_dir>/X.pdf behind it.
C16_CommitBeforeWrite ==
    [][\A r \in Reqs :
          /\ RowBeforeFile(r)
          /\ WriteFails(r) => (\A f \in files' : f[1] # file_path(loc[r]))]_vars

\* C16, amended: in upload the row is committed before the file write
\* begins, and a file write that fails leaves the row in the table with no
\* whole file behind it: <upload_dir>/X.pdf does not exist or is truncated.
C16_NoWholeFile ==
    [][\A r \in Reqs :
          /\ RowBeforeFile(r)
          /\ WriteFails(r) => (<<file_path(loc[r]), "whole">> \notin files')]_vars

\* Two file writes have failed and nothing is in flight: one unlocked
\* UPLOADED row is stored with no file, another with a truncated file.
C16_Witness ==
    /\ last.req.op = "upload_submission"
    /\ last.resp.detail = "OSError"
    /\ \A r \in Reqs : pc[r] = "idle"
    /\ \E s, u \in Stored :
          /\ Row(s).status = "UPLOADED" /\ ~Row(s).locked
          /\ Row(u).status = "UPLOADED" /\ ~Row(u).locked
          /\ ~isfile(file_path(Row(s)))
          /\ <<file_path(Row(u)), "part">> \in files

\* Task t takes a step.
Runs(t) == t \in DOMAIN tasks /\ (t \notin DOMAIN tasks' \/ tasks'[t] # tasks[t])

\* Task t commits in this step.
Commits(t) == t \in DOMAIN tasks /\ tasks[t].pc = "loaded" /\ t \notin DOMAIN tasks'

\* A step of task t writes nothing but the status of its row.
C17_Frame(t) ==
    Runs(t)
        => /\ UNCHANGED <<profiles, files, scheduled, last>>
           /\ DOMAIN submissions' = Stored
           /\ \A s \in Stored \ {t[1]} : submissions'[s] = Row(s)
           /\ t[1] \in Stored
                 => \A f \in DOMAIN Row(t[1]) \ {"status"} : submissions'[t[1]][f] = Row(t[1])[f]

\* When task t finds no row it ends and writes nothing; when it commits,
\* the status of its row is COMPLETED.
C17_Effect(t) ==
    /\ (Runs(t) /\ t[1] \notin Stored) => (tasks' = Drop(t) /\ submissions' = submissions)
    /\ Commits(t) => submissions'[t[1]].status = "COMPLETED"

Stranded(s) ==
    /\ s \in Stored
    /\ Row(s).locked /\ Row(s).status = "PROCESSING"
    /\ \A t \in DOMAIN tasks : t[1] # s
    /\ \A r \in Workers : pc[r] \in { "submit_commit", "submit_return" } => req[r].id # s

\* A restart strands every submission that is locked and in processing;
\* a stranded submission stays stranded, and a submit on it is answered 409.
C18_Step ==
    /\ Restart
          => \A s \in Stored :
                (Row(s).locked /\ Row(s).status = "PROCESSING") => Stranded(s)'
    /\ \A s \in SubIds :
          Stranded(s)
              => /\ Stranded(s)'
                 /\ (Answered /\ last'.req.op = "submit" /\ last'.req.id = s)
                       => last'.resp.code = 409

\* C18: when the server restarts after a submit has committed locked = true
\* and status = PROCESSING and before the completion task has run, the task
\* is gone: the submission stays locked at PROCESSING in every later state,
\* every later submit on it is answered 409, and it never gets to COMPLETED.
C18_RestartStrands == [][C18_Step]_vars

\* A task had been scheduled for a submission, the server restarted before
\* it ran, and a later submit on the stranded submission was answered 409.
C18_Witness ==
    \E s \in SubIds :
        /\ Stranded(s)
        /\ scheduled[s] > 0
        /\ last.req.op = "submit" /\ last.req.id = s
        /\ last.resp.code = 409
        /\ \A r \in Workers : pc[r] = "idle"

\* C19: every file in the upload directory is the file of a stored
\* Submission row, at the path derived from the id of that row, and two
\* distinct rows never have the same file path, whatever their filenames.
C19_FileHasRow ==
    /\ \A f \in files : \E s \in Stored : f[1] = file_path(Row(s))
    /\ \A s, u \in Stored : s # u => file_path(Row(s)) # file_path(Row(u))

\* Two uploads of files with the same name are stored, each with its own
\* whole file.
C19_Witness ==
    /\ Cardinality(Stored) = 2
    /\ \A s, u \in Stored : Row(s).filename = Row(u).filename
    /\ \A s \in Stored : <<file_path(Row(s)), "whole">> \in files
    /\ Cardinality(files) = 2

====
